---------------------------- MODULE Spec2Model ----------------------------
(***************************************************************************)
(* A model of sculptor.py (class Sculptor): the declared schema (add,      *)
(* _load_schema), the rendering of the schema sent to the LLM              *)
(* (_build_schema_for_llm), one extraction (sculpt) and the batch          *)
(* orchestration (sculpt_batch, sequential or on a ThreadPoolExecutor).    *)
(*                                                                         *)
(* Python values are tagged records.  A mutable object (list, dict)        *)
(* carries the tag own: "decl" when it is the object held by the declared  *)
(* schema, "copy" when copy.deepcopy created it during a call.  A write    *)
(* through a reference to a "decl" object is a write to the declared       *)
(* schema.                                                                 *)
(***************************************************************************)
EXTENDS Naturals, Sequences, FiniteSets, TLC

VARIABLES
    schema,     \* self.schema: ordered dict, field name -> field definition
    canon,      \* what the latest _build_schema_for_llm() call returned/raised
    template,   \* self.template: the placeholder key it names, <<>> when empty
    lastAdd,    \* whether the latest add(...) call stored its field or raised
    data,       \* data[i]: the input record of item i
    reply,      \* reply[i]: what the LLM capability answers for item i
    merge,      \* merge[i]: the merge_input argument of the sculpt call of item i
    st,         \* st[i]: the state of record i in the extraction protocol
    calls,      \* calls[i]: invocations of chat.completions.create for item i
    out,        \* out[i]: what sculpt(data[i]) returned or raised
    fut,        \* fut[i]: the state of item i's call (the future, when pooled)
    nWorkers,   \* the n_workers argument of sculpt_batch
    batch,      \* position of the sculpt_batch call
    nextIdx,    \* index of the next result the batch call consumes
    results,    \* the results list sculpt_batch accumulates
    raised      \* the exception that left sculpt_batch, if one did

vars == <<schema, canon, template, lastAdd, data, reply, merge, st, calls, out, fut,
          nWorkers, batch, nextIdx, results, raised>>

callVars == <<template, data, reply, merge, st, calls, out, fut, nWorkers, batch,
              nextIdx, results, raised>>

-----------------------------------------------------------------------------
(* Python values *)

PyNone == [k |-> "none"]
PyStr(s) == [k |-> "str", s |-> s]
PyType(n) == [k |-> "type", s |-> n]
PyBool(b) == [k |-> "bool", b |-> b]
PyList(o, e) == [k |-> "list", own |-> o, e |-> e]
PyDict(o, e) == [k |-> "dict", own |-> o, e |-> e]
Entry(key, val) == [key |-> key, val |-> val]

IsDict(x) == x.k = "dict"
IsList(x) == x.k = "list"

\* list(d.keys())
Keys(d) == [i \in 1..Len(d.e) |-> d.e[i].key]
\* key in d
Has(d, key) == \E i \in 1..Len(d.e) : d.e[i].key = key
\* d[key]
Get(d, key) == d.e[CHOOSE i \in 1..Len(d.e) : d.e[i].key = key].val
\* d.get(key, default)
GetOr(d, key, default) == IF Has(d, key) THEN Get(d, key) ELSE default
\* d[key] = val: an existing key keeps its position, a new key goes last
Put(d, key, val) ==
    IF Has(d, key)
    THEN [d EXCEPT !.e = [i \in 1..Len(d.e) |->
                             IF d.e[i].key = key THEN Entry(key, val) ELSE d.e[i]]]
    ELSE [d EXCEPT !.e = Append(d.e, Entry(key, val))]

\* A copy that shares the objects of x
DeepCopyAlias(x) == x

RECURSIVE DeepCopy(_)
\* copy.deepcopy: every mutable object reachable from x is a new object
DeepCopy(x) ==
    IF IsDict(x)
    THEN PyDict("copy", [i \in 1..Len(x.e) |-> Entry(x.e[i].key, DeepCopy(x.e[i].val))])
    ELSE IF IsList(x)
    THEN PyList("copy", x.e)
    ELSE x

\* What a sculpt call has produced
NoOut == [kind |-> "none", v |-> PyNone, err |-> "none", cause |-> "none"]
Local(v) == [kind |-> "local", v |-> v, err |-> "none", cause |-> "none"]
Return(v) == [kind |-> "return", v |-> v, err |-> "none", cause |-> "none"]
RaiseOut(err, cause) == [kind |-> "raise", v |-> PyNone, err |-> err, cause |-> cause]

Ok(v) == [ok |-> TRUE, v |-> v, err |-> "none"]
Raise(err) == [ok |-> FALSE, v |-> PyNone, err |-> err]

-----------------------------------------------------------------------------
(* add: normalize_type *)

\* str.lower() on the type tokens the model draws
Lower(s) ==
    CASE s = "STR" -> "str"
      [] s = "String" -> "string"
      [] s = "anyOf" -> "anyof"
      [] s = "Enum" -> "enum"
      [] OTHER -> s

normalize_type(t) ==
    IF t.k \notin {"type", "str"}
    THEN Raise("AttributeError")
    ELSE LET t_lower == Lower(t.s) IN
         IF t_lower \in {"str", "string"} THEN Ok("string")
         ELSE IF t_lower \in {"bool", "boolean"} THEN Ok("boolean")
         ELSE IF t_lower \in {"int", "integer"} THEN Ok("integer")
         ELSE IF t_lower \in {"float", "number"} THEN Ok("number")
         ELSE IF t_lower \in {"dict", "object"} THEN Ok("object")
         ELSE IF t_lower \in {"list", "array"} THEN Ok("array")
         ELSE IF t_lower \in {"enum", "anyof"} THEN Ok(t_lower)
         ELSE Raise("ValueError:UnsupportedType")

\* `not enum`: None or an empty list
Falsy(x) == x.k = "none" \/ (x.k = "list" /\ Len(x.e) = 0)

\* The field definition add() stores
FieldDef(type, description, items, enum) ==
    PyDict("decl", << Entry("type", PyStr(type)),
                      Entry("description", PyStr(description)),
                      Entry("items", items),
                      Entry("enum", enum) >>)

\* add() storing the field before it checks the enum values
addStoreFirst(s, name, field_type, description, items, enum) ==
    LET nt == normalize_type(field_type) IN
    IF ~nt.ok THEN [ok |-> FALSE, err |-> nt.err, schema |-> s]
    ELSE IF nt.v = "array" /\ items.k = "none"
    THEN [ok |-> FALSE, err |-> "ValueError:ArrayNeedsItems", schema |-> s]
    ELSE IF nt.v = "array" /\ ~IsDict(items) /\ ~normalize_type(items).ok
    THEN [ok |-> FALSE, err |-> normalize_type(items).err, schema |-> s]
    ELSE LET processed_items ==
                 IF nt.v # "array" THEN PyNone
                 ELSE IF IsDict(items) THEN items
                 ELSE PyStr(normalize_type(items).v)
             stored == Put(s, name, FieldDef(nt.v, description, processed_items, enum))
         IN IF nt.v = "enum" /\ Falsy(enum)
            THEN [ok |-> FALSE, err |-> "ValueError:EnumNeedsValues", schema |-> stored]
            ELSE [ok |-> TRUE, err |-> "none", schema |-> stored]

\* add(name, field_type, description, items, enum) on schema s:
\* [ok, err, schema]
add(s, name, field_type, description, items, enum) ==
    LET nt == normalize_type(field_type) IN
    IF ~nt.ok THEN [ok |-> FALSE, err |-> nt.err, schema |-> s]
    ELSE IF nt.v = "array" /\ items.k = "none"
    THEN [ok |-> FALSE, err |-> "ValueError:ArrayNeedsItems", schema |-> s]
    ELSE IF nt.v = "array" /\ ~IsDict(items) /\ ~normalize_type(items).ok
    THEN [ok |-> FALSE, err |-> normalize_type(items).err, schema |-> s]
    ELSE IF nt.v = "enum" /\ Falsy(enum)
    THEN [ok |-> FALSE, err |-> "ValueError:EnumNeedsValues", schema |-> s]
    ELSE LET processed_items ==
                 IF nt.v # "array" THEN PyNone
                 ELSE IF IsDict(items) THEN items
                 ELSE PyStr(normalize_type(items).v)
         IN [ok |-> TRUE, err |-> "none",
             schema |-> Put(s, name, FieldDef(nt.v, description, processed_items, enum))]

-----------------------------------------------------------------------------
(* _build_schema_for_llm *)

EmptyDict == PyDict("copy", <<>>)
TypeIs(node, t) == Get(node, "type").k = "str" /\ Get(node, "type").s = t

RECURSIVE build_subschema(_)
RECURSIVE BuildEach(_, _, _)

\* {name: build_subschema(meta) for name, meta in d.items()}; the first
\* subschema that raises ends the loop
BuildEach(d, i, acc) ==
    IF i > Len(d.e) THEN Ok(acc)
    ELSE LET sub == build_subschema(d.e[i].val) IN
         IF ~sub.ok THEN sub
         ELSE BuildEach(d, i + 1, Put(acc, d.e[i].key, sub.v))

build_subschema(meta) ==
    LET node == DeepCopy(meta) IN
    IF ~Has(node, "type") THEN Raise("KeyError")
    ELSE
    LET schema_def == IF Has(node, "description")
                      THEN Put(EmptyDict, "description", Get(node, "description"))
                      ELSE EmptyDict
    IN
    IF TypeIs(node, "object")
    THEN LET nested == BuildEach(GetOr(node, "properties", EmptyDict), 1, EmptyDict) IN
         IF ~nested.ok THEN nested
         ELSE Ok(Put(Put(Put(Put(schema_def, "type", PyStr("object")),
                             "properties", nested.v),
                         "additionalProperties", PyBool(FALSE)),
                     "required", PyList("copy", Keys(nested.v))))
    ELSE IF TypeIs(node, "array")
    THEN IF ~Has(node, "items") \/ Get(node, "items").k = "none"
         THEN Raise("ValueError:MissingItems")
         ELSE LET items_meta == Get(node, "items") IN
              IF IsDict(items_meta)
              THEN LET sub == build_subschema(items_meta) IN
                   IF ~sub.ok THEN sub
                   ELSE Ok(Put(Put(schema_def, "type", PyStr("array")), "items", sub.v))
              ELSE Ok(Put(Put(schema_def, "type", PyStr("array")),
                          "items", Put(EmptyDict, "type", items_meta)))
    ELSE IF \E t \in {"string", "number", "boolean", "integer"} : TypeIs(node, t)
    THEN Ok(Put(schema_def, "type", Get(node, "type")))
    ELSE IF TypeIs(node, "enum")
    THEN IF ~Has(node, "enum") \/ Get(node, "enum").k = "none"
         THEN Raise("ValueError:MissingEnum")
         ELSE Ok(Put(Put(schema_def, "type", PyStr("string")), "enum", Get(node, "enum")))
    ELSE IF TypeIs(node, "anyof")
    THEN Ok(Put(schema_def, "anyOf", GetOr(node, "anyOf", PyList("copy", <<>>))))
    ELSE Raise("ValueError:UnsupportedType")

\* _build_schema_for_llm() on the declared schema s
build_schema_for_llm(s) ==
    LET top == BuildEach(s, 1, EmptyDict) IN
    IF ~top.ok THEN top
    ELSE Ok(PyDict("copy", <<
            Entry("name", PyStr("extract_fields")),
            Entry("strict", PyBool(TRUE)),
            Entry("schema", PyDict("copy", <<
                Entry("type", PyStr("object")),
                Entry("properties", top.v),
                Entry("required", PyList("copy", Keys(top.v))),
                Entry("additionalProperties", PyBool(FALSE)) >>)) >>))

-----------------------------------------------------------------------------
(* Declarations the model draws *)

MaxFields == 2
FieldNames == <<"a", "b", "c", "d">>
Names == {FieldNames[i] : i \in 1..MaxFields}

Str(s) == PyStr(s)
UserDict(e) == PyDict("decl", e)
UserList(e) == PyList("decl", e)

\* items dicts a caller may pass: add() stores them without looking inside
ItemsString == UserDict(<<Entry("type", Str("string")), Entry("description", Str("d"))>>)
ItemsAlias == UserDict(<<Entry("type", Str("str"))>>)
ItemsFoo == UserDict(<<Entry("type", Str("foo"))>>)
ItemsNoType == UserDict(<<Entry("description", Str("d"))>>)
ItemsBareArray == UserDict(<<Entry("type", Str("array"))>>)
ItemsBareEnum == UserDict(<<Entry("type", Str("enum"))>>)
ItemsEnum == UserDict(<<Entry("type", Str("enum")), Entry("enum", UserList(<<"r", "g">>))>>)
ItemsObject ==
    UserDict(<<Entry("type", Str("object")),
               Entry("properties", UserDict(<<Entry("x", ItemsString)>>))>>)
ItemsNested == UserDict(<<Entry("type", Str("array")), Entry("items", ItemsEnum)>>)

Decl(t, items, enum) == [field_type |-> t, items |-> items, enum |-> enum]

\* (field_type, items, enum) arguments of add()
Decls == <<
    Decl(PyType("str"), PyNone, PyNone),
    Decl(Str("STR"), PyNone, PyNone),
    Decl(PyType("int"), PyNone, PyNone),
    Decl(PyType("dict"), PyNone, PyNone),
    Decl(Str("anyOf"), PyNone, PyNone),
    Decl(Str("Enum"), PyNone, UserList(<<"r", "g">>)),
    Decl(Str("enum"), PyNone, PyNone),
    Decl(Str("enum"), PyNone, UserList(<<>>)),
    Decl(Str("array"), PyNone, PyNone),
    Decl(Str("array"), Str("integer"), PyNone),
    Decl(PyType("list"), PyType("int"), PyNone),
    Decl(Str("array"), Str("foo"), PyNone),
    Decl(Str("array"), ItemsAlias, PyNone),
    Decl(Str("array"), ItemsFoo, PyNone),
    Decl(Str("array"), ItemsNoType, PyNone),
    Decl(Str("array"), ItemsBareArray, PyNone),
    Decl(Str("array"), ItemsObject, PyNone),
    Decl(Str("list"), ItemsNested, PyNone),
    Decl(Str("foo"), PyNone, PyNone) >>

\* schema mappings a caller may hand to _load_schema: name -> field data
Configs == <<
    UserDict(<<Entry("a", UserDict(<<Entry("type", Str("boolean"))>>)),
               Entry("b", UserDict(<<Entry("field_type", Str("array")),
                                     Entry("items", Str("float"))>>))>>),
    UserDict(<<Entry("a", UserDict(<<Entry("field_type", Str("enum")),
                                     Entry("enum", UserList(<<"r", "g">>))>>)),
               Entry("b", UserDict(<<Entry("description", Str("d"))>>))>>),
    UserDict(<<Entry("b", UserDict(<<Entry("type", Str("list")),
                                     Entry("items", ItemsBareEnum)>>)),
               Entry("a", UserDict(<<Entry("field_type", Str("")),
                                     Entry("type", Str("String"))>>))>>) >>

EmptySchema == PyDict("decl", <<>>)
NotBuilt == [ok |-> FALSE, v |-> PyNone, err |-> "notbuilt"]
NoAdd == "none"
AddStatus(r) == IF r.ok THEN "stored" ELSE "rejected"

-----------------------------------------------------------------------------
(* Operations on the declared schema *)

\* add(name, field_type, "d", items, enum)
Add ==
    \E name \in Names, j \in 1..Len(Decls) :
        LET r == add(schema, name, Decls[j].field_type, Str("d"),
                     Decls[j].items, Decls[j].enum)
        IN /\ schema' = r.schema
           /\ lastAdd' = AddStatus(r)
           /\ canon' = NotBuilt
           /\ UNCHANGED callVars

\* `x or y` on the values a field-data mapping holds
PyOr(x, y) == IF x.k = "none" \/ (x.k = "str" /\ x.s = "") THEN y ELSE x

RECURSIVE LoadFrom(_, _, _, _)
\* the loop of _load_schema from entry i on: [schema, last]; the first add()
\* that raises ends it
LoadFrom(cfg, i, s, last) ==
    IF i > Len(cfg.e) THEN [schema |-> s, last |-> last]
    ELSE LET field_data == cfg.e[i].val
             field_type == PyOr(GetOr(field_data, "field_type", PyNone),
                                GetOr(field_data, "type", PyNone))
             r == add(s, cfg.e[i].key, field_type,
                      GetOr(field_data, "description", Str("")),
                      GetOr(field_data, "items", PyNone),
                      GetOr(field_data, "enum", PyNone))
         IN IF r.ok THEN LoadFrom(cfg, i + 1, r.schema, AddStatus(r))
            ELSE [schema |-> s, last |-> AddStatus(r)]

\* _load_schema(cfg)
LoadSchema ==
    \E j \in 1..Len(Configs) :
        LET r == LoadFrom(Configs[j], 1, schema, lastAdd) IN
        /\ schema' = r.schema
        /\ lastAdd' = r.last
        /\ canon' = NotBuilt
        /\ UNCHANGED callVars

\* _build_schema_for_llm()
Build ==
    /\ canon' = build_schema_for_llm(schema)
    /\ UNCHANGED <<schema, lastAdd>>
    /\ UNCHANGED callVars

NoCalls ==
    /\ template = <<>>
    /\ data = <<>> /\ reply = <<>> /\ merge = <<>> /\ st = <<>>
    /\ calls = <<>> /\ out = <<>> /\ fut = <<>>
    /\ nWorkers = 0 /\ batch = "none" /\ nextIdx = 1
    /\ results = <<>> /\ raised = NoOut

InitSchema ==
    /\ schema = EmptySchema
    /\ canon = NotBuilt
    /\ lastAdd = NoAdd
    /\ NoCalls

NextSchema == Add \/ LoadSchema \/ Build

SpecSchema == InitSchema /\ [][NextSchema]_vars

-----------------------------------------------------------------------------
(* sculpt: the pure steps *)

\* Record keys are sequences of characters
Whitespace == {" ", "\t"}

RECURSIVE LStrip(_)
LStrip(s) == IF s # <<>> /\ Head(s) \in Whitespace THEN LStrip(Tail(s)) ELSE s
RECURSIVE RStrip(_)
RStrip(s) ==
    IF s # <<>> /\ s[Len(s)] \in Whitespace THEN RStrip(SubSeq(s, 1, Len(s) - 1)) ELSE s
\* str.strip()
Strip(s) == RStrip(LStrip(s))

RECURSIVE PutAll(_, _, _)
\* acc after acc[key] = val for the entries of d from i on, in order
PutAll(acc, d, i) ==
    IF i > Len(d.e) THEN acc
    ELSE PutAll(Put(acc, d.e[i].key, d.e[i].val), d, i + 1)

RECURSIVE StripFrom(_, _, _)
StripFrom(acc, d, i) ==
    IF i > Len(d.e) THEN acc
    ELSE StripFrom(Put(acc, Strip(d.e[i].key), d.e[i].val), d, i + 1)
\* {k.strip(): v for k, v in extracted.items()}
StripKeys(d) == StripFrom(EmptyDict, d, 1)

\* The message content: text that is JSON for the value json, or is not JSON
JsonText(json) == [k |-> "text", valid |-> TRUE, json |-> json]
Garbage == [k |-> "text", valid |-> FALSE, json |-> PyNone]

\* json.loads(content)
json_loads(content) ==
    IF content.valid THEN Ok(content.json) ELSE Raise("JSONDecodeError")

\* No unwrapping of a one-element list
UnwrapNever(x) == x

\* if isinstance(extracted, list) and len(extracted) == 1: extracted = extracted[0]
Unwrap(x) == IF IsList(x) /\ Len(x.e) = 1 THEN x.e[1] ELSE x

\* Lines 284-290 on the first choice's content
ParseContent(content) ==
    IF content.k = "none" THEN Raise("AttributeError")
    ELSE LET loaded == json_loads(content) IN
         IF ~loaded.ok THEN loaded
         ELSE LET extracted == Unwrap(loaded.v) IN
              IF ~IsDict(extracted) THEN Raise("AttributeError")
              ELSE Ok(StripKeys(extracted))

\* {**extracted, **data}: the input wins
MergeInputWins(d, extracted) == PutAll(PutAll(EmptyDict, extracted, 1), d, 1)

\* {**data, **extracted}
MergeDicts(d, extracted) == PutAll(PutAll(EmptyDict, d, 1), extracted, 1)

\* _format_input_data: a template placeholder the record lacks raises KeyError
FormatOk(tpl, d) == tpl = <<>> \/ Has(d, tpl)

\* An except clause that catches only the transport and JSON errors
ExceptNarrow(cause) ==
    IF cause \in {"APIError", "JSONDecodeError"}
    THEN RaiseOut("RuntimeError", cause)
    ELSE RaiseOut(cause, "none")

\* except Exception as e: raise RuntimeError(f"LLM API call failed: {e}")
ExceptHandler(cause) == RaiseOut("RuntimeError", cause)

RECURSIVE WriteThrough(_, _)
\* The declared node meta after the holder of the rendered node defn appends
\* to every list it holds: a list that is the declared schema's own object
\* changes in the declared schema
WriteThrough(meta, defn) ==
    LET m1 == IF /\ Has(defn, "enum") /\ IsList(Get(defn, "enum"))
                 /\ Get(defn, "enum").own = "decl"
                 /\ Has(meta, "enum") /\ IsList(Get(meta, "enum"))
              THEN Put(meta, "enum", [Get(meta, "enum") EXCEPT !.e = Append(@, "z")])
              ELSE meta
    IN IF /\ Has(defn, "items") /\ IsDict(Get(defn, "items"))
          /\ Has(m1, "items") /\ IsDict(Get(m1, "items"))
       THEN Put(m1, "items", WriteThrough(Get(m1, "items"), Get(defn, "items")))
       ELSE m1

\* The declared schema s after the LLM layer wrote into the schema wire it
\* was handed
DownstreamWrite(s, wire) ==
    LET props == Get(Get(wire, "schema"), "properties") IN
    [s EXCEPT !.e = [i \in 1..Len(s.e) |->
        IF Has(props, s.e[i].key)
        THEN Entry(s.e[i].key, WriteThrough(s.e[i].val, Get(props, s.e[i].key)))
        ELSE s.e[i]]]

-----------------------------------------------------------------------------
(* Inputs of the extraction calls the model draws *)

MaxCalls == 2
MaxRecords == 3
MaxWorkers == 2

Rec(e) == PyDict("data", e)
Json(e) == PyDict("copy", e)
JsonList(e) == PyList("copy", e)
KeyN == <<"n">>
KeyE == <<"e">>
KeyX == <<"x">>

DataBob == Rec(<<Entry(KeyN, Str("Bob"))>>)
DataBobX == Rec(<<Entry(KeyX, Str("0")), Entry(KeyN, Str("Bob"))>>)
Datas == <<DataBob, DataBobX>>

MapEmail == Json(<<Entry(KeyE, Str("a@b.com"))>>)
MapRobert == Json(<<Entry(<<" ", "n", "\t">>, Str("Robert"))>>)
MapClash == Json(<<Entry(<<" ", "x">>, Str("1")), Entry(KeyE, Str("e")),
                   Entry(KeyX, Str("2"))>>)

\* create(...) raises, or returns a response whose first choice has this content
CreateRaises == [k |-> "raises", content |-> PyNone]
Content(c) == [k |-> "content", content |-> c]

Replies == <<
    CreateRaises,
    Content(Garbage),
    Content(JsonText(MapEmail)),
    Content(JsonText(MapRobert)),
    Content(JsonText(MapClash)),
    Content(JsonText(JsonList(<<MapEmail>>))),
    Content(JsonText(JsonList(<<MapRobert>>))),
    Content(JsonText(JsonList(<<MapEmail, MapRobert>>))),
    Content(JsonText(JsonList(<<>>))),
    Content(JsonText(Str("abc"))) >>

\* The records of a batch: input record and the LLM's answer for it
Item(d, r) == [data |-> d, reply |-> r]
BatchItems == <<
    Item(DataBob, Content(JsonText(MapEmail))),
    Item(DataBobX, Content(JsonText(JsonList(<<MapRobert>>)))),
    Item(DataBob, Content(Garbage)),
    Item(DataBobX, CreateRaises) >>

\* Declared schemas the extraction calls run on, each built by add()
SchemaGood ==
    add(add(add(EmptySchema, "a", PyType("str"), Str("d"), PyNone, PyNone).schema,
            "b", Str("enum"), Str("d"), PyNone, UserList(<<"r", "g">>)).schema,
        "c", Str("array"), Str("d"), ItemsNested, PyNone).schema
SchemaBad ==
    add(EmptySchema, "a", Str("array"), Str("d"), ItemsFoo, PyNone).schema

Config(s, t) == [schema |-> s, template |-> t]
CallConfigs == <<Config(SchemaGood, <<>>), Config(SchemaGood, KeyX),
                 Config(SchemaBad, <<>>)>>
BatchConfigs == <<Config(SchemaGood, <<>>), Config(SchemaBad, <<>>)>>

-----------------------------------------------------------------------------
(* sculpt(data[i], merge_input = merge[i]), step by step *)

Items == 1..Len(data)

\* Lines 272-283: build the schema, compose the message, invoke the capability
Request(i) ==
    /\ fut[i] = "running" /\ st[i] = "Pending" /\ out[i].kind = "none"
    /\ \E schema_for_llm \in {build_schema_for_llm(schema)} :
       IF ~schema_for_llm.ok
       THEN /\ out' = [out EXCEPT ![i] = RaiseOut(schema_for_llm.err, "none")]
            /\ fut' = [fut EXCEPT ![i] = "done"]
            /\ UNCHANGED <<st, calls, schema>>
       ELSE IF ~FormatOk(template, data[i])
       THEN /\ out' = [out EXCEPT ![i] = ExceptHandler("KeyError")]
            /\ st' = [st EXCEPT ![i] = "Failed"]
            /\ fut' = [fut EXCEPT ![i] = "done"]
            /\ UNCHANGED <<calls, schema>>
       ELSE /\ st' = [st EXCEPT ![i] = "Requested"]
            /\ calls' = [calls EXCEPT ![i] = @ + 1]
            /\ \E written \in BOOLEAN :
                   schema' = IF written
                             THEN DownstreamWrite(schema, schema_for_llm.v)
                             ELSE schema
            /\ UNCHANGED <<out, fut>>
    /\ UNCHANGED <<canon, template, lastAdd, data, reply, merge, nWorkers,
                   batch, nextIdx, results, raised>>

\* Respond with a retry: a failed call puts the record back to Pending
RespondRetry(i) ==
    /\ fut[i] = "running" /\ st[i] = "Requested"
    /\ LET r == IF reply[i].k = "raises" THEN Raise("APIError")
                ELSE ParseContent(reply[i].content)
       IN IF r.ok
          THEN /\ st' = [st EXCEPT ![i] = "Parsed"]
               /\ out' = [out EXCEPT ![i] = Local(r.v)]
          ELSE /\ st' = [st EXCEPT ![i] = "Pending"]
               /\ out' = out
    /\ UNCHANGED <<schema, canon, template, lastAdd, data, reply, merge, calls,
                   nWorkers, batch, nextIdx, results, raised, fut>>

\* Lines 275-293: the capability answers; parse, unwrap, strip the keys
Respond(i) ==
    /\ fut[i] = "running" /\ st[i] = "Requested"
    /\ LET r == IF reply[i].k = "raises" THEN Raise("APIError")
                ELSE ParseContent(reply[i].content)
       IN IF r.ok
          THEN /\ st' = [st EXCEPT ![i] = "Parsed"]
               /\ out' = [out EXCEPT ![i] = Local(r.v)]
               /\ UNCHANGED fut
          ELSE /\ st' = [st EXCEPT ![i] = "Failed"]
               /\ out' = [out EXCEPT ![i] = ExceptHandler(r.err)]
               /\ fut' = [fut EXCEPT ![i] = "done"]
    /\ UNCHANGED <<schema, canon, template, lastAdd, data, reply, merge, calls,
                   nWorkers, batch, nextIdx, results, raised>>

\* Lines 295-305: return the extraction, or the input merged with it
Finish(i) ==
    /\ fut[i] = "running" /\ st[i] = "Parsed"
    /\ IF ~merge[i]
       THEN /\ st' = [st EXCEPT ![i] = "Returned"]
            /\ out' = [out EXCEPT ![i] = Return(out[i].v)]
       ELSE /\ st' = [st EXCEPT ![i] = "Merged"]
            /\ out' = [out EXCEPT ![i] = Return(MergeDicts(data[i], out[i].v))]
    /\ fut' = [fut EXCEPT ![i] = "done"]
    /\ UNCHANGED <<schema, canon, template, lastAdd, data, reply, merge, calls,
                   nWorkers, batch, nextIdx, results, raised>>

\* sculpt(d, merge_input = m) as a function of the declared schema s, the
\* template tpl and the capability's answer r
sculpt(s, tpl, d, r, m) ==
    LET schema_for_llm == build_schema_for_llm(s) IN
    IF ~schema_for_llm.ok THEN RaiseOut(schema_for_llm.err, "none")
    ELSE IF ~FormatOk(tpl, d) THEN ExceptHandler("KeyError")
    ELSE IF r.k = "raises" THEN ExceptHandler("APIError")
    ELSE LET extracted == ParseContent(r.content) IN
         IF ~extracted.ok THEN ExceptHandler(extracted.err)
         ELSE IF ~m THEN Return(extracted.v)
         ELSE Return(MergeDicts(d, extracted.v))

\* A caller invokes sculpt(d, merge_input = m); the capability will answer r
Call ==
    /\ batch = "none"
    /\ Len(data) < MaxCalls
    /\ \A j \in Items : fut[j] = "done"
    /\ \E d \in 1..Len(Datas), r \in 1..Len(Replies), m \in BOOLEAN :
          /\ data' = Append(data, Datas[d])
          /\ reply' = Append(reply, Replies[r])
          /\ merge' = Append(merge, m)
    /\ st' = Append(st, "Pending")
    /\ calls' = Append(calls, 0)
    /\ out' = Append(out, NoOut)
    /\ fut' = Append(fut, "running")
    /\ UNCHANGED <<schema, canon, template, lastAdd, nWorkers, batch, nextIdx,
                   results, raised>>

InitOne ==
    /\ \E c \in 1..Len(CallConfigs) :
          schema = CallConfigs[c].schema /\ template = CallConfigs[c].template
    /\ canon = NotBuilt
    /\ lastAdd = "stored"
    /\ data = <<>> /\ reply = <<>> /\ merge = <<>> /\ st = <<>>
    /\ calls = <<>> /\ out = <<>> /\ fut = <<>>
    /\ nWorkers = 0 /\ batch = "none" /\ nextIdx = 1
    /\ results = <<>> /\ raised = NoOut

DoRequest == \E i \in Items : Request(i)
DoRespond == \E i \in Items : Respond(i)
DoFinish == \E i \in Items : Finish(i)

NextOne == Call \/ DoRequest \/ DoRespond \/ DoFinish

SpecOne == InitOne /\ [][NextOne]_vars

-----------------------------------------------------------------------------
(* sculpt_batch(data, n_workers, merge_input) *)

Running == {i \in Items : fut[i] = "running"}
Queued == {i \in Items : fut[i] = "queued"}
Min(S) == CHOOSE x \in S : \A y \in S : x <= y

\* Results taken as they complete: the latest finished future not yet consumed
AwaitedCompleted ==
    IF \E i \in Items : i >= nextIdx /\ fut[i] = "done"
    THEN CHOOSE i \in Items : /\ i >= nextIdx /\ fut[i] = "done"
                              /\ \A j \in Items : (j > i) => fut[j] # "done"
    ELSE nextIdx

\* The future whose result the batch call waits for next: executor.map
\* yields the futures' results in the order of the inputs
Awaited == nextIdx

batchFrame == <<schema, canon, template, lastAdd, data, reply, merge, st,
                calls, out, nWorkers>>

\* Lines 330-343: n_workers > 1, executor.map submits one future per item
StartPool ==
    /\ batch = "idle" /\ nWorkers > 1
    /\ fut' = [i \in Items |-> "queued"]
    /\ batch' = "collecting"
    /\ UNCHANGED <<nextIdx, results, raised>>
    /\ UNCHANGED batchFrame

\* A pool thread takes the oldest work item of the queue and runs it
WorkerPick ==
    /\ batch \in {"collecting", "shutdown"}
    /\ Queued # {}
    /\ Cardinality(Running) < nWorkers
    /\ fut' = [fut EXCEPT ![Min(Queued)] = "running"]
    /\ UNCHANGED <<batch, nextIdx, results, raised>>
    /\ UNCHANGED batchFrame

\* list(executor.map(...)): the next result in input order is there
PoolCollect ==
    /\ batch = "collecting" /\ nextIdx <= Len(data)
    /\ fut[Awaited] = "done" /\ out[Awaited].kind = "return"
    /\ results' = Append(results, out[Awaited].v)
    /\ nextIdx' = nextIdx + 1
    /\ UNCHANGED <<fut, batch, raised>>
    /\ UNCHANGED batchFrame

\* A batch that tolerates a failed item: its slot is filled with None
PoolSkip ==
    /\ batch = "collecting" /\ nextIdx <= Len(data)
    /\ fut[Awaited] = "done" /\ out[Awaited].kind = "raise"
    /\ results' = Append(results, PyNone)
    /\ nextIdx' = nextIdx + 1
    /\ UNCHANGED <<fut, batch, raised>>
    /\ UNCHANGED batchFrame

\* The awaited future raised: the result iterator cancels the futures still
\* pending and the exception leaves list(...)
PoolFail ==
    /\ batch = "collecting" /\ nextIdx <= Len(data)
    /\ fut[Awaited] = "done" /\ out[Awaited].kind = "raise"
    /\ raised' = out[Awaited]
    /\ fut' = [i \in Items |-> IF fut[i] = "queued" THEN "cancelled" ELSE fut[i]]
    /\ batch' = "shutdown"
    /\ UNCHANGED <<nextIdx, results>>
    /\ UNCHANGED batchFrame

\* The with block ends on the exception: shutdown(wait=True) joins the
\* threads, then the exception leaves sculpt_batch
PoolRaise ==
    /\ batch = "shutdown"
    /\ Running = {} /\ Queued = {}
    /\ batch' = "raised"
    /\ UNCHANGED <<fut, nextIdx, results, raised>>
    /\ UNCHANGED batchFrame

\* Line 350 after the pool: every result was collected
PoolReturn ==
    /\ batch = "collecting" /\ nextIdx > Len(data)
    /\ batch' = "returned"
    /\ UNCHANGED <<fut, nextIdx, results, raised>>
    /\ UNCHANGED batchFrame

\* Lines 344-346: n_workers <= 1
StartSeq ==
    /\ batch = "idle" /\ nWorkers <= 1
    /\ batch' = "seq"
    /\ UNCHANGED <<fut, nextIdx, results, raised>>
    /\ UNCHANGED batchFrame

\* Line 348: sculpt_with_merge(item) is called for the next item
SeqCall ==
    /\ batch = "seq" /\ nextIdx <= Len(data)
    /\ fut[nextIdx] = "idle"
    /\ fut' = [fut EXCEPT ![nextIdx] = "running"]
    /\ UNCHANGED <<batch, nextIdx, results, raised>>
    /\ UNCHANGED batchFrame

\* Line 348: results.append(...) of what the call returned
SeqAppend ==
    /\ batch = "seq" /\ nextIdx <= Len(data)
    /\ fut[nextIdx] = "done" /\ out[nextIdx].kind = "return"
    /\ results' = Append(results, out[nextIdx].v)
    /\ nextIdx' = nextIdx + 1
    /\ UNCHANGED <<fut, batch, raised>>
    /\ UNCHANGED batchFrame

\* Line 348: the call raised, the exception leaves the loop and sculpt_batch
SeqRaise ==
    /\ batch = "seq" /\ nextIdx <= Len(data)
    /\ fut[nextIdx] = "done" /\ out[nextIdx].kind = "raise"
    /\ raised' = out[nextIdx]
    /\ batch' = "raised"
    /\ UNCHANGED <<fut, nextIdx, results>>
    /\ UNCHANGED batchFrame

\* Line 350 after the loop
SeqReturn ==
    /\ batch = "seq" /\ nextIdx > Len(data)
    /\ batch' = "returned"
    /\ UNCHANGED <<fut, nextIdx, results, raised>>
    /\ UNCHANGED batchFrame

RECURSIVE SeqsUpTo(_, _)
\* The sequences over 1..k of length at most n
SeqsUpTo(k, n) ==
    IF n = 0 THEN {<<>>}
    ELSE LET shorter == SeqsUpTo(k, n - 1) IN
         shorter \cup {Append(q, x) : q \in shorter, x \in 1..k}

InitBatch ==
    /\ \E c \in 1..Len(BatchConfigs) :
          schema = BatchConfigs[c].schema /\ template = BatchConfigs[c].template
    /\ canon = NotBuilt
    /\ lastAdd = "stored"
    /\ \E q \in SeqsUpTo(Len(BatchItems), MaxRecords), m \in BOOLEAN :
          /\ data = [i \in 1..Len(q) |-> BatchItems[q[i]].data]
          /\ reply = [i \in 1..Len(q) |-> BatchItems[q[i]].reply]
          /\ merge = [i \in 1..Len(q) |-> m]
          /\ st = [i \in 1..Len(q) |-> "Pending"]
          /\ calls = [i \in 1..Len(q) |-> 0]
          /\ out = [i \in 1..Len(q) |-> NoOut]
          /\ fut = [i \in 1..Len(q) |-> "idle"]
    /\ nWorkers \in 0..MaxWorkers
    /\ batch = "idle" /\ nextIdx = 1
    /\ results = <<>> /\ raised = NoOut

NextBatch ==
    \/ StartPool \/ WorkerPick \/ PoolCollect \/ PoolFail \/ PoolRaise \/ PoolReturn
    \/ StartSeq \/ SeqCall \/ SeqAppend \/ SeqRaise \/ SeqReturn
    \/ DoRequest \/ DoRespond \/ DoFinish
    \/ Build

Spec == InitBatch /\ [][NextBatch]_vars

-----------------------------------------------------------------------------
(* Claims *)

Ended == batch \in {"returned", "raised"}
Pooled == nWorkers > 1
Failing == {i \in Items : out[i].kind = "raise"}

\* C1: in every state of a batch call, sequential or pooled and whatever the
\* order in which the workers finish, the k-th collected result is what
\* sculpt returned for the k-th input record; a batch call that returned
\* holds exactly one result per input record.
C1_PositionalOrder ==
    /\ Len(results) <= Len(data)
    /\ \A k \in 1..Len(results) :
          out[k].kind = "return" /\ results[k] = out[k].v
    /\ (batch = "returned") => (Len(results) = Len(data))

\* A pooled batch holds the first record's result while the third record
\* finished before the second.
C1_Witness ==
    /\ Pooled /\ batch = "collecting"
    /\ Len(data) >= 3 /\ Len(results) = 1
    /\ results[1] = out[1].v
    /\ fut[3] = "done" /\ fut[2] = "running"

\* A running sculpt call can take its next step
CanStep(i) ==
    \/ st[i] = "Pending" /\ out[i].kind = "none"
    \/ st[i] = "Requested"
    \/ st[i] = "Parsed"

\* The batch call itself, or one of its running sculpt calls, can step
BatchCanStep ==
    \/ \E i \in Running : CanStep(i)
    \/ ENABLED (StartPool \/ WorkerPick \/ PoolCollect \/ PoolFail \/ PoolRaise
                  \/ StartSeq \/ SeqCall \/ SeqAppend \/ SeqRaise)

\* C2: the batch is fail-fast.  Once the extraction of a record has raised,
\* the batch call never returns a list: it has raised, or can still take a
\* step towards raising; the exception that leaves it is the one a record's
\* extraction raised; and no record is requested from the capability twice.
C2_FailFast ==
    /\ (batch = "returned") => (Failing = {})
    /\ (batch = "raised") => (\E i \in Failing : raised = out[i])
    /\ (Failing # {}) => (batch = "raised" \/ BatchCanStep)
    /\ \A i \in Items : calls[i] <= 1

\* A pooled batch raised after it had already collected a result.
C2_Witness ==
    /\ Pooled /\ batch = "raised"
    /\ Len(results) >= 1
    /\ \E i \in Failing : raised = out[i] /\ calls[i] = 1

\* The mapping the capability answered for item i, unwrapped from a
\* one-element list
Answered(i) ==
    LET json == reply[i].content.json IN
    IF IsList(json) THEN json.e[1] ELSE json

\* C3: a sculpt call with merge_input = True returns a mapping whose keys are
\* the input's keys and the stripped keys of the extraction; a key of the
\* extraction carries the extraction's value (for keys equal after
\* stripping, the value of the last one), also when the input has the key; a
\* key of the input alone carries the input's value.
C3_MergeUnion ==
    \A i \in Items : (st[i] = "Merged") =>
        LET m == Answered(i)
            v == out[i].v
            stripped == {Strip(m.e[j].key) : j \in 1..Len(m.e)}
        IN /\ out[i].kind = "return" /\ IsDict(v)
           /\ {v.e[j].key : j \in 1..Len(v.e)} =
                  {data[i].e[j].key : j \in 1..Len(data[i].e)} \cup stripped
           /\ \A j, l \in 1..Len(v.e) : (v.e[j].key = v.e[l].key) => (j = l)
           /\ \A j \in 1..Len(m.e) :
                  (\A l \in (j + 1)..Len(m.e) : Strip(m.e[l].key) # Strip(m.e[j].key))
                      => Get(v, Strip(m.e[j].key)) = m.e[j].val
           /\ \A j \in 1..Len(data[i].e) :
                  (data[i].e[j].key \notin stripped)
                      => Get(v, data[i].e[j].key) = data[i].e[j].val

\* A merged record in which the extraction's padded key n overwrote the
\* input's n and the input's x passed through.
C3_Witness ==
    \E i \in Items :
        /\ st[i] = "Merged"
        /\ data[i] = DataBobX
        /\ Answered(i) = MapRobert
        /\ Get(out[i].v, KeyN) = Str("Robert")
        /\ Get(out[i].v, KeyX) = Str("0")

\* The failure the steps after the request meet on the answer r, "none"
\* when they meet none
CauseOf(r) ==
    IF r.k = "raises" THEN "APIError"
    ELSE IF ~r.content.valid THEN "JSONDecodeError"
    ELSE LET json == r.content.json IN
         IF IsDict(json) THEN "none"
         ELSE IF IsList(json) /\ Len(json.e) = 1 /\ IsDict(json.e[1]) THEN "none"
         ELSE "AttributeError"

\* C4: when invoking the capability, parsing its content, unwrapping it or
\* stripping its keys fails, sculpt raises one RuntimeError that carries the
\* cause, and the call never holds or returns an extraction or a merged
\* record.
C4_SingleCallError ==
    \A i \in Items :
        /\ (calls[i] = 1 /\ CauseOf(reply[i]) # "none") =>
              /\ out[i].kind \in {"none", "raise"}
              /\ (fut[i] = "done") => (out[i] = RaiseOut("RuntimeError", CauseOf(reply[i])))
        /\ (st[i] = "Failed") =>
              /\ fut[i] = "done"
              /\ out[i].kind = "raise" /\ out[i].err = "RuntimeError"
              /\ out[i].cause # "none" /\ out[i].v = PyNone

\* A call whose answer was a list of two mappings ended with a RuntimeError
\* wrapping the AttributeError.
C4_Witness ==
    \E i \in Items :
        /\ fut[i] = "done" /\ calls[i] = 1
        /\ reply[i] = Content(JsonText(JsonList(<<MapEmail, MapRobert>>)))
        /\ out[i] = RaiseOut("RuntimeError", "AttributeError")

\* C5: for every schema the add and _load_schema calls can reach,
\* _build_schema_for_llm does not fail with an unsupported-type error.
C5_NoUnsupportedKindAtBuild == canon.err # "ValueError:UnsupportedType"

\* C6: no step of _build_schema_for_llm, sculpt or sculpt_batch changes the
\* declared schema, nested items declarations included.
C6_SchemaFrame == [][schema' = schema]_vars

\* A pooled batch on the schema with an enum field and a nested items
\* declaration: the capability was handed the rendered schema for two
\* records at once, and the schema was built on its own as well.
C6_Witness ==
    /\ Pooled /\ schema = SchemaGood /\ canon.ok
    /\ \E i, j \in Items : i # j /\ st[i] = "Requested" /\ st[j] = "Requested"

AllowedSteps(i) ==
    { <<"Pending", "Requested">>, <<"Pending", "Failed">>,
      <<"Requested", "Parsed">>, <<"Requested", "Failed">>,
      <<"Parsed", IF merge[i] THEN "Merged" ELSE "Returned">> }

\* C7: the state of a record changes only along Pending -> Requested ->
\* Parsed -> Merged (merge_input true) or Returned (merge_input false), or
\* to Failed from a step before Parsed; nothing leaves Failed, Merged or
\* Returned; the capability is invoked only on the step to Requested, at
\* most once per record.
C7_RecordStates ==
    [][\A i \in Items :
          /\ (st'[i] # st[i]) => (<<st[i], st'[i]>> \in AllowedSteps(i))
          /\ (calls'[i] # calls[i]) =>
                (calls[i] = 0 /\ calls'[i] = 1 /\ st[i] = "Pending" /\ st'[i] = "Requested")
          /\ (st'[i] \in {"Pending", "Failed"}) => (calls'[i] = calls[i])
      ]_vars

\* One record failed after its single request and another was returned
\* unmerged.
C7_Witness ==
    /\ \E i \in Items : st[i] = "Failed" /\ calls[i] = 1 /\ fut[i] = "done"
    /\ \E i \in Items : st[i] = "Returned" /\ calls[i] = 1

\* C8: whenever _build_schema_for_llm returns, the top-level object lists as
\* properties and as required exactly the declared names, each once, in the
\* order of their first declaration, with additionalProperties False; and an
\* add call that raises leaves the declared schema as it was.
C8_ClosedWorldTop ==
    /\ canon.ok =>
          LET top == Get(canon.v, "schema") IN
          /\ Keys(Get(top, "properties")) = Keys(schema)
          /\ Get(top, "required").e = Keys(schema)
          /\ \A j, l \in 1..Len(schema.e) :
                 (schema.e[j].key = schema.e[l].key) => (j = l)
          /\ Get(top, "additionalProperties") = PyBool(FALSE)
          /\ Get(top, "type") = Str("object")
    /\ \A name \in Names, j \in 1..Len(Decls) :
          LET r == add(schema, name, Decls[j].field_type, Str("d"),
                       Decls[j].items, Decls[j].enum)
          IN (~r.ok) => (r.schema = schema)

\* The schema was built after b, then a, were declared and a later add
\* was rejected.
C8_Witness ==
    /\ canon.ok /\ lastAdd = "rejected"
    /\ Keys(schema) = <<"b", "a">>
    /\ Get(Get(canon.v, "schema"), "required").e = <<"b", "a">>

IsMapping(r) == r.k = "content" /\ r.content.valid /\ IsDict(r.content.json)
WrapsAnswerOf(r, q) ==
    /\ r.k = "content" /\ r.content.valid /\ IsList(r.content.json)
    /\ r.content.json.e = <<q.content.json>>

\* C9: two finished sculpt calls on the same record with the same
\* merge_input, one answered with a mapping m and the other with the list
\* [m], end alike.
C9_UnwrapSingleton ==
    \A i, j \in Items :
        ( /\ fut[i] = "done" /\ fut[j] = "done"
          /\ data[i] = data[j] /\ merge[i] = merge[j]
          /\ IsMapping(reply[j]) /\ WrapsAnswerOf(reply[i], reply[j]) )
        => (out[i] = out[j] /\ st[i] = st[j])

\* Such a pair of calls, both returned.
C9_Witness ==
    \E i, j \in Items :
        /\ fut[i] = "done" /\ fut[j] = "done"
        /\ data[i] = data[j] /\ merge[i] = merge[j] /\ merge[i]
        /\ IsMapping(reply[j]) /\ WrapsAnswerOf(reply[i], reply[j])
        /\ out[i].kind = "return" /\ out[i] = out[j]

\* What sculpt does on record i, as a function of the record
Fixed(i) == sculpt(schema, template, data[i], reply[i], merge[i])
FixedFailing == {i \in Items : Fixed(i).kind = "raise"}

\* C10: a batch call that ended, pooled or sequential and whatever the
\* interleaving, ended as the records alone decide: it returned the list of
\* the records' results, or, when records fail, it raised the failure of the
\* failing record with the smallest index.
C10_ScheduleIndependent ==
    Ended =>
        IF FixedFailing = {}
        THEN batch = "returned" /\ results = [i \in Items |-> Fixed(i).v]
        ELSE batch = "raised" /\ raised = Fixed(Min(FixedFailing))

\* A pooled batch in which two records failed differently raised the failure
\* of the first of them.
C10_Witness ==
    /\ Pooled /\ batch = "raised"
    /\ \E i, j \in Failing : i < j /\ out[i] # out[j] /\ raised = out[i]

=============================================================================
